---- MODULE Spec2Model ----
(***************************************************************************)
(* Model of air_quality_crawler.py: the retrying fetcher (get_html), the   *)
(* two extractors (parse_cities, parse_stations) and the two-phase         *)
(* orchestration (crawl_phase1, crawl_phase2, main).                       *)
(*                                                                         *)
(* Text is a sequence of one-character strings, so that strip() and        *)
(* startswith() are computed.  A page is given by what BeautifulSoup's     *)
(* queries return on it (the links of a region, the rows and cells of a    *)
(* table), in document order.                                              *)
(***************************************************************************)
EXTENDS Integers, Sequences, FiniteSets, TLC

VARIABLES pc, inp, res, html, cities, idx, all_stations, visited, requested, out

vars == <<pc, inp, res, html, cities, idx, all_stations, visited, requested, out>>

(* ------------------------------ bounds -------------------------------- *)

\* number of scripted transport outcomes offered to one get_html call
NOutcomes == 5
\* links on a landing page (all three regions together)
MaxLinks == 2
\* rows of a station table (header row included)
MaxRows == 3
\* cells of a station table (all rows together)
MaxCells == 6
\* the same three bounds for the pages served during a run of main
MainLinks == 2
MainRows == 2
MainCells == 3

(* --------------------------- python values ---------------------------- *)

None == [kind |-> "None"]

\* the empty string as a response body
EmptyBody == [kind |-> "empty"]

\* markup on which BeautifulSoup(html, "html.parser") raises
RejectedMarkup == [kind |-> "rejected"]

\* a python list as the value of a variable that may also hold None
List(val) == [kind |-> "list", val |-> val]

\* truth value of a body or a list: `if not html`, `if cities`
Truthy(v) ==
    /\ v.kind \notin {"None", "empty"}
    /\ v.kind = "list" => v.val # <<>>

Min(a, b) == IF a < b THEN a ELSE b

RECURSIVE lstrip(_)
lstrip(s) == IF s # <<>> /\ Head(s) = " " THEN lstrip(Tail(s)) ELSE s

RECURSIVE rstrip(_)
rstrip(s) ==
    IF s # <<>> /\ s[Len(s)] = " " THEN rstrip(SubSeq(s, 1, Len(s) - 1)) ELSE s

\* str.strip()
strip(s) == rstrip(lstrip(s))

\* str.startswith("/")
startswith_slash(s) == Len(s) > 0 /\ s[1] = "/"

(* ------------------------------ get_html ------------------------------ *)

max_retries == 3

Jitter == [ev |-> "jitter", d |-> 0]
Get == [ev |-> "get", d |-> 0]
Backoff(d) == [ev |-> "backoff", d |-> d]

Response(status_code, text) ==
    [kind |-> "response", status_code |-> status_code, text |-> text]
RequestException == [kind |-> "exception"]

\* mutant: the retry test lets one more retry through
ShouldRetry_le(retries) == retries <= max_retries

\* `if retries < self.max_retries`
ShouldRetry(retries) == retries < max_retries

\* mutant: linear instead of exponential backoff
BackoffDelay_linear(retries) == retries + 1

\* `time.sleep(2 ** retries)`
BackoffDelay(retries) == 2 ^ retries

\* mutant: only the first attempt is paced
AttemptEvents_first_only(retries) ==
    IF retries = 0 THEN <<Jitter, Get>> ELSE <<Get>>

\* the jitter sleep and the GET that open every attempt
AttemptEvents(retries) == <<Jitter, Get>>

\* get_html(url, retries) against a transport that answers the n-th GET of
\* the call with transport[n]; the attempt with retry count `retries` is the
\* GET number retries + 1.  Returns the value, whether an exception left the
\* function, and the sleeps and GETs performed, in order.
RECURSIVE get_html(_, _)
get_html(transport, retries) ==
    LET response == transport[retries + 1]
        ev == AttemptEvents(retries)
    IN  IF response.kind = "response"
        THEN IF response.status_code = 200
             THEN [ret |-> response.text, raised |-> FALSE, events |-> ev]
             ELSE IF ShouldRetry(retries)
                  THEN LET r == get_html(transport, retries + 1)
                       IN  [r EXCEPT !.events =
                               ev \o <<Backoff(BackoffDelay(retries))>> \o @]
                  ELSE [ret |-> None, raised |-> FALSE, events |-> ev]
        ELSE \* except requests.exceptions.RequestException
             IF ShouldRetry(retries)
             THEN LET r == get_html(transport, retries + 1)
                  IN  [r EXCEPT !.events =
                          ev \o <<Backoff(BackoffDelay(retries))>> \o @]
             ELSE [ret |-> None, raised |-> FALSE, events |-> ev]

(* ----------------------- specification: get_html ---------------------- *)

StatusCodes == {200, 404, 503}
FetchBodies == {EmptyBody, RejectedMarkup}
Outcomes ==
    {Response(s, b) : s \in StatusCodes, b \in FetchBodies} \cup {RequestException}

Idle ==
    /\ html = None
    /\ cities = None
    /\ idx = 0
    /\ all_stations = <<>>
    /\ visited = <<>>
    /\ requested = <<>>
    /\ out = <<>>

InitFetch ==
    /\ pc = "fetch_call"
    /\ inp \in [1..NOutcomes -> Outcomes]
    /\ res = None
    /\ Idle

\* one call get_html(url) against the scripted transport inp
GetHtml ==
    /\ pc = "fetch_call"
    /\ res' = get_html(inp, 0)
    /\ pc' = "fetch_done"
    /\ UNCHANGED <<inp, html, cities, idx, all_stations, visited, requested, out>>

NextFetch == GetHtml

SpecFetch == InitFetch /\ [][NextFetch]_vars

Failed(o) == ~(o.kind = "response" /\ o.status_code = 200)

OfKind(events, k) == SelectSeq(events, LAMBDA e : e.ev = k)

CountUpTo(events, j, k) == Cardinality({m \in 1..j : events[m].ev = k})

\* C1: when every attempt fails (non-200 status or transport exception, in
\* any mix), get_html makes exactly 4 GETs, returns None and does not raise.
C1_RetryExhaustion ==
    (pc = "fetch_done" /\ \A k \in 1..4 : Failed(inp[k]))
        => /\ res.ret = None
           /\ ~res.raised
           /\ Len(OfKind(res.events, "get")) = 4

C1_Witness ==
    /\ pc = "fetch_done"
    /\ \A k \in 1..4 : Failed(inp[k])
    /\ inp[1].kind = "exception"
    /\ inp[2].kind = "response"
    /\ inp[5].kind = "response" /\ inp[5].status_code = 200
    /\ res.ret = None

\* C2: when the first k attempts fail (0 <= k <= 3) and attempt k+1 answers
\* 200, get_html returns that attempt's body after exactly k backoff waits,
\* the i-th of 2^(i-1) units and placed after GET i and before GET i+1.
C2_RetryBackoff ==
    \A k \in 0..3 :
        (/\ pc = "fetch_done"
         /\ \A j \in 1..k : Failed(inp[j])
         /\ ~Failed(inp[k + 1]))
        => LET e == res.events
               b == OfKind(e, "backoff")
           IN  /\ res.ret = inp[k + 1].text
               /\ Len(OfKind(e, "get")) = k + 1
               /\ Len(b) = k
               /\ \A i \in 1..Len(b) : b[i].d = 2 ^ (i - 1)
               /\ \A j \in 1..Len(e) :
                     e[j].ev = "backoff"
                        => CountUpTo(e, j, "get") = CountUpTo(e, j, "backoff")

C2_Witness ==
    /\ pc = "fetch_done"
    /\ Failed(inp[1]) /\ Failed(inp[2]) /\ ~Failed(inp[3])
    /\ res.ret = inp[3].text
    /\ OfKind(res.events, "backoff") = <<Backoff(1), Backoff(2)>>

\* C9: every GET is immediately preceded by its own jitter sleep, and a
\* backoff wait follows a GET and is followed by jitter sleep, then GET.
C9_PacingOrder ==
    pc = "fetch_done"
        => LET e == res.events
           IN  \A j \in 1..Len(e) :
                  /\ e[j].ev = "get" => (j > 1 /\ e[j - 1].ev = "jitter")
                  /\ e[j].ev = "backoff"
                        => /\ j > 1 /\ e[j - 1].ev = "get"
                           /\ j + 2 <= Len(e)
                           /\ e[j + 1].ev = "jitter"
                           /\ e[j + 2].ev = "get"

C9_Witness ==
    /\ pc = "fetch_done"
    /\ Len(OfKind(res.events, "backoff")) = 3
    /\ res.ret # None

(* ---------------------------- parse_cities ---------------------------- *)

\* a hyperlink: its text and its href attribute, if it has one
NoHref == [has |-> FALSE, val |-> <<>>]
Href(s) == [has |-> TRUE, val |-> s]

\* a landing page: the links of the parents of the letter paragraphs, the
\* links of the siblings after the key-cities text (none when the text is
\* absent), and for each non-header row of each table its first link
\* (<<>> when the row has none, else <<link>>)
LandingPage(letterLinks, keyLinks, rowLinks) ==
    [kind |-> "landing", letterLinks |-> letterLinks, keyLinks |-> keyLinks,
     rowLinks |-> rowLinks]

\* `any(name == city_name for name, _ in cities)`
AlreadyAdded(cs, city_name) == \E k \in 1..Len(cs) : cs[k][1] = city_name

\* the loop over the letter paragraphs: every link is appended; link["href"]
\* raises KeyError on a link without href
RECURSIVE LetterSections(_, _)
LetterSections(links, cs) ==
    IF links = <<>> THEN [exc |-> FALSE, cities |-> cs]
    ELSE LET link == Head(links)
             city_name == strip(link.text)
         IN  IF ~link.href.has THEN [exc |-> TRUE, cities |-> cs]
             ELSE LetterSections(Tail(links),
                                 Append(cs, <<city_name, link.href.val>>))

\* the loop over the key-cities siblings: a link is appended unless its name
\* was collected before
RECURSIVE KeyCities(_, _)
KeyCities(links, cs) ==
    IF links = <<>> THEN [exc |-> FALSE, cities |-> cs]
    ELSE LET link == Head(links)
             city_name == strip(link.text)
         IN  IF ~link.href.has THEN [exc |-> TRUE, cities |-> cs]
             ELSE IF ~AlreadyAdded(cs, city_name)
                  THEN KeyCities(Tail(links),
                                 Append(cs, <<city_name, link.href.val>>))
                  ELSE KeyCities(Tail(links), cs)

\* the loop over the rows of the ranking tables
RECURSIVE RankingTables(_, _)
RankingTables(rows, cs) ==
    IF rows = <<>> THEN [exc |-> FALSE, cities |-> cs]
    ELSE LET city_link == Head(rows)
         IN  IF city_link = <<>> THEN RankingTables(Tail(rows), cs)
             ELSE LET city_name == strip(city_link[1].text)
                  IN  IF ~city_link[1].href.has
                      THEN [exc |-> TRUE, cities |-> cs]
                      ELSE IF ~AlreadyAdded(cs, city_name)
                           THEN RankingTables(Tail(rows),
                                    Append(cs, <<city_name, city_link[1].href.val>>))
                           ELSE RankingTables(Tail(rows), cs)

\* the three heuristics in order, stopping at the first exception
Collected(page) ==
    LET s1 == LetterSections(page.letterLinks, <<>>)
        s2 == IF s1.exc THEN s1 ELSE KeyCities(page.keyLinks, s1.cities)
    IN  IF s2.exc THEN s2 ELSE RankingTables(page.rowLinks, s2.cities)

\* mutant: a "/" is prefixed to every url
Normalize_always(url) == <<"/">> \o url

\* `url if url.startswith("/") else f"/{url}"`
Normalize(url) == IF startswith_slash(url) THEN url ELSE <<"/">> \o url

\* mutant: the handler returns what was collected before the exception
ParseCitiesExcept_partial(collected) ==
    [ret |-> [k \in 1..Len(collected) |->
                 <<collected[k][1], Normalize(collected[k][2])>>],
     raised |-> FALSE]

\* `except Exception as e: ... return []`
ParseCitiesExcept(collected) == [ret |-> <<>>, raised |-> FALSE]

\* parse_cities(html): the returned list, and whether an exception left it
parse_cities(page) ==
    IF ~Truthy(page) THEN [ret |-> <<>>, raised |-> FALSE]
    ELSE IF page.kind = "rejected" THEN ParseCitiesExcept(<<>>)
    ELSE LET c == Collected(page)
         IN  IF c.exc THEN ParseCitiesExcept(c.cities)
             ELSE [ret |-> [k \in 1..Len(c.cities) |->
                              <<c.cities[k][1], Normalize(c.cities[k][2])>>],
                   raised |-> FALSE]

(* --------------------------- parse_stations --------------------------- *)

Cell(tag, text) == [tag |-> tag, text |-> text]

\* a city page: its tables in document order; a table is the sequence of
\* its rows, a row the sequence of its cells
CityPage(tables) == [kind |-> "city", tables |-> tables]

\* row.find_all(names)
find_all(row, names) == SelectSeq(row, LAMBDA c : c.tag \in names)

\* `[th.text.strip() for th in rows[0].find_all(["th", "td"])]`
Headers(row) ==
    LET hc == find_all(row, {"th", "td"})
    IN  [k \in 1..Len(hc) |-> strip(hc[k].text)]

\* mutant: the first of several cells under one label is kept
HeaderRecord_first(headers, cols) ==
    LET n == Min(Len(headers), Len(cols))
        first(key) == CHOOSE k \in 1..n :
                         headers[k] = key /\ \A m \in 1..(k - 1) : headers[m] # key
    IN  [key \in {headers[k] : k \in 1..n} |-> strip(cols[first(key)].text)]

\* the dict filled by `station_data[header] = value` for i < len(headers):
\* a later cell under the same label overwrites an earlier one
HeaderRecord(headers, cols) ==
    LET n == Min(Len(headers), Len(cols))
        last(key) == CHOOSE k \in 1..n :
                        headers[k] = key /\ \A m \in (k + 1)..n : headers[m] # key
    IN  [key \in {headers[k] : k \in 1..n} |-> strip(cols[last(key)].text)]

\* the six default column names (监测站, AQI, 空气质量等级, PM2.5, PM10,
\* 首要污染物), each one token
KeyStation == <<"station">>
KeyAQI == <<"AQI">>
KeyLevel == <<"level">>
KeyPM25 == <<"PM2.5">>
KeyPM10 == <<"PM10">>
KeyPollutant == <<"pollutant">>
SixKeys == {KeyStation, KeyAQI, KeyLevel, KeyPM25, KeyPM10, KeyPollutant}
NA == <<"N/A">>

\* mutant: PM10 is read from the PM2.5 column
FallbackRecord_pm10(cols) ==
    [key \in SixKeys |->
        IF key = KeyStation THEN strip(cols[1].text)
        ELSE IF key = KeyAQI THEN strip(cols[2].text)
        ELSE IF key = KeyLevel THEN strip(cols[3].text)
        ELSE IF key = KeyPM25
             THEN IF Len(cols) > 3 THEN strip(cols[4].text) ELSE NA
        ELSE IF key = KeyPM10
             THEN IF Len(cols) > 4 THEN strip(cols[4].text) ELSE NA
        ELSE IF Len(cols) > 5 THEN strip(cols[6].text) ELSE NA]

\* the default record of a row (python columns 0..5 are cols[1..6])
FallbackRecord(cols) ==
    [key \in SixKeys |->
        IF key = KeyStation THEN strip(cols[1].text)
        ELSE IF key = KeyAQI THEN strip(cols[2].text)
        ELSE IF key = KeyLevel THEN strip(cols[3].text)
        ELSE IF key = KeyPM25
             THEN IF Len(cols) > 3 THEN strip(cols[4].text) ELSE NA
        ELSE IF key = KeyPM10
             THEN IF Len(cols) > 4 THEN strip(cols[5].text) ELSE NA
        ELSE IF Len(cols) > 5 THEN strip(cols[6].text) ELSE NA]

\* the body of `for row in rows[1:]`: the records the row appends
RowRecord(headers, row) ==
    LET cols == find_all(row, {"td"})
    IN  IF Len(cols) >= 3
        THEN LET station_data == HeaderRecord(headers, cols)
             IN  IF DOMAIN station_data = {}
                 THEN <<FallbackRecord(cols)>>
                 ELSE <<station_data>>
        ELSE <<>>

RECURSIVE StationRows(_, _)
StationRows(headers, rows) ==
    IF rows = <<>> THEN <<>>
    ELSE RowRecord(headers, Head(rows)) \o StationRows(headers, Tail(rows))

\* `except Exception as e: ... return []`
ParseStationsExcept(collected) == [ret |-> <<>>, raised |-> FALSE]

\* parse_stations(html, city_name)
parse_stations(page) ==
    IF ~Truthy(page) THEN [ret |-> <<>>, raised |-> FALSE]
    ELSE IF page.kind = "rejected" THEN ParseStationsExcept(<<>>)
    ELSE IF page.tables = <<>> THEN [ret |-> <<>>, raised |-> FALSE]
    ELSE LET rows == page.tables[1]
         IN  IF Len(rows) <= 1 THEN [ret |-> <<>>, raised |-> FALSE]
             ELSE [ret |-> StationRows(Headers(rows[1]), Tail(rows)),
                   raised |-> FALSE]

(* --------------------- specification: the extractors ------------------ *)

LinkTexts == {<<"a">>, <<" ", "a">>, <<"b">>}
HrefVals == {Href(<<"/", "x">>), Href(<<"y">>), NoHref}
Links == {[text |-> t, href |-> h] : t \in LinkTexts, h \in HrefVals}

\* P holds of some landing page with at most n links and link-less rows,
\* the links from L
SomeLandingPage(L, n, P(_)) ==
    \E a \in 0..n : \E b \in 0..(n - a) : \E c \in 0..(n - a - b) :
        \E x \in [1..a -> L], y \in [1..b -> L],
           z \in [1..c -> {<<>>} \cup {<<l>> : l \in L}] :
            P(LandingPage(x, y, z))

HeaderCells == {Cell("th", <<"p">>), Cell("th", <<" ", "q">>), Cell("td", <<" ">>)}
DataCells == {Cell("td", <<"p">>), Cell("td", <<" ", "q">>), Cell("th", <<"p">>)}

\* a later table of the page: an empty header row and one row of three cells
SecondTable ==
    << <<>>, <<Cell("td", <<"p">>), Cell("td", <<"p">>), Cell("td", <<"p">>)>> >>

\* the cells of the first i rows of a table whose rows hold lens[1],
\* lens[2], ... cells
RECURSIVE CellsBefore(_, _)
CellsBefore(lens, i) == IF i = 0 THEN 0 ELSE lens[i] + CellsBefore(lens, i - 1)

\* P holds of some table of at least one and at most r rows, and at most c
\* cells, the cells of the first row from H and the other cells from D
SomeTable(H, D, r, c, P(_)) ==
    \E k \in 1..r : \E lens \in [1..k -> 0..c] :
        /\ CellsBefore(lens, k) <= c
        /\ \E h \in [1..lens[1] -> H] :
              \E d \in [1..(CellsBefore(lens, k) - lens[1]) -> D] :
                 P([i \in 1..k |->
                      IF i = 1 THEN h
                      ELSE SubSeq(d, CellsBefore(lens, i - 1) - lens[1] + 1,
                                  CellsBefore(lens, i) - lens[1])])

\* P holds of some city page whose tables hold at most r rows each and c
\* cells together
SomeCityPage(H, D, r, c, P(_)) ==
    \/ \E ts \in {<<>>, << <<>> >>} : P(CityPage(ts))
    \/ SomeTable(H, D, r, c, LAMBDA t : P(CityPage(<<t>>)))
    \/ c >= 3 /\ SomeTable(H, D, r, c - 3,
                            LAMBDA t : P(CityPage(<<t, SecondTable>>)))

InitParse ==
    /\ pc = "parse_call"
    /\ res = None
    /\ Idle
    /\ \/ \E p \in {None, EmptyBody, RejectedMarkup} :
             \E f \in {"parse_cities", "parse_stations"} :
                inp = [fn |-> f, html |-> p]
       \/ SomeLandingPage(Links, MaxLinks,
                          LAMBDA p : inp = [fn |-> "parse_cities", html |-> p])
       \/ SomeCityPage(HeaderCells, DataCells, MaxRows, MaxCells,
                       LAMBDA p : inp = [fn |-> "parse_stations", html |-> p])

ParseCities ==
    /\ pc = "parse_call"
    /\ inp.fn = "parse_cities"
    /\ res' = parse_cities(inp.html)
    /\ pc' = "parse_done"
    /\ UNCHANGED <<inp, html, cities, idx, all_stations, visited, requested, out>>

ParseStations ==
    /\ pc = "parse_call"
    /\ inp.fn = "parse_stations"
    /\ res' = parse_stations(inp.html)
    /\ pc' = "parse_done"
    /\ UNCHANGED <<inp, html, cities, idx, all_stations, visited, requested, out>>

NextParse == ParseCities \/ ParseStations

SpecParse == InitParse /\ [][NextParse]_vars

CitiesDone == pc = "parse_done" /\ inp.fn = "parse_cities"
StationsDone == pc = "parse_done" /\ inp.fn = "parse_stations"

\* C4: the list parse_cities returns holds no two entries of the same name.
C4_DedupInvariant ==
    CitiesDone
        => \A j, k \in 1..Len(res.ret) :
              j # k => res.ret[j][1] # res.ret[k][1]

\* some processed link of the page has no href
LinkWithoutHref(page) ==
    \/ \E k \in 1..Len(page.letterLinks) : ~page.letterLinks[k].href.has
    \/ \E k \in 1..Len(page.keyLinks) : ~page.keyLinks[k].href.has
    \/ \E k \in 1..Len(page.rowLinks) :
          page.rowLinks[k] # <<>> /\ ~page.rowLinks[k][1].href.has

\* the extraction of the input raises inside the extractor
RaisesInside ==
    \/ inp.html.kind = "rejected"
    \/ inp.fn = "parse_cities" /\ inp.html.kind = "landing"
          /\ LinkWithoutHref(inp.html)

\* C5: no exception leaves parse_cities or parse_stations, and when one is
\* raised inside (markup the parser rejects, a link without href) the
\* extractor returns the empty list, whatever was collected before.
C5_ExtractionFailures ==
    pc = "parse_done"
        => /\ ~res.raised
           /\ RaisesInside => res.ret = <<>>

C5_Witness ==
    /\ CitiesDone
    /\ inp.html.kind = "landing"
    /\ Len(inp.html.letterLinks) = 2
    /\ inp.html.letterLinks[1].href.has
    /\ ~inp.html.letterLinks[2].href.has
    /\ res.ret = <<>>
    /\ ~res.raised

\* C8: every url parse_cities returns starts with "/": a collected href
\* that starts with "/" is returned as it is, any other with one "/" put
\* in front.
C8_HrefNormalization ==
    (CitiesDone /\ inp.html.kind = "landing")
        => /\ \A k \in 1..Len(res.ret) :
                 Len(res.ret[k][2]) > 0 /\ res.ret[k][2][1] = "/"
           /\ ~LinkWithoutHref(inp.html)
                 => LET raw == Collected(inp.html).cities
                    IN  /\ Len(res.ret) = Len(raw)
                        /\ \A k \in 1..Len(raw) :
                              LET u == raw[k][2]
                                  v == res.ret[k][2]
                              IN  IF Len(u) > 0 /\ u[1] = "/"
                                  THEN v = u
                                  ELSE v = <<"/">> \o u

C8_Witness ==
    /\ CitiesDone
    /\ inp.html.kind = "landing"
    /\ Len(res.ret) = 2
    /\ res.ret[1][2] = <<"/", "x">>
    /\ res.ret[2][2] = <<"/", "y">>
    /\ inp.html.keyLinks # <<>>
    /\ inp.html.rowLinks # <<>>

TdCells(row) == SelectSeq(row, LAMBDA c : c.tag = "td")

\* the rows after the first that hold at least 3 data cells
RecordRows(table) == SelectSeq(Tail(table), LAMBDA r : Len(TdCells(r)) >= 3)

\* parse_stations has run on a page whose first table has more than one row
FirstTableParsed ==
    /\ StationsDone
    /\ inp.html.kind = "city"
    /\ inp.html.tables # <<>>
    /\ Len(inp.html.tables[1]) > 1

\* C6: when the header row of the table yields no label, every data row of
\* at least 3 cells yields a record of exactly the six default keys, taken
\* from columns 0..5 in that order, "N/A" standing for each of the last
\* three whose column the row lacks.
C6_FixedFieldFallback ==
    (FirstTableParsed /\ Headers(inp.html.tables[1][1]) = <<>>)
        => LET q == RecordRows(inp.html.tables[1])
           IN  /\ Len(res.ret) = Len(q)
               /\ \A k \in 1..Len(q) :
                     LET c == TdCells(q[k])
                         rec == res.ret[k]
                     IN  /\ DOMAIN rec = SixKeys
                         /\ rec[KeyStation] = strip(c[1].text)
                         /\ rec[KeyAQI] = strip(c[2].text)
                         /\ rec[KeyLevel] = strip(c[3].text)
                         /\ rec[KeyPM25] =
                               IF Len(c) >= 4 THEN strip(c[4].text) ELSE NA
                         /\ rec[KeyPM10] =
                               IF Len(c) >= 5 THEN strip(c[5].text) ELSE NA
                         /\ rec[KeyPollutant] =
                               IF Len(c) >= 6 THEN strip(c[6].text) ELSE NA

C6_Witness ==
    /\ FirstTableParsed
    /\ Headers(inp.html.tables[1][1]) = <<>>
    /\ Len(res.ret) = 1
    /\ res.ret[1][KeyPM25] = <<"p">>
    /\ res.ret[1][KeyPM10] = <<"q">>
    /\ res.ret[1][KeyPollutant] = NA

base_url == <<"https://www.air-level.com">>

\* urljoin(self.base_url, city_url) for a base without path
urljoin(base, url) ==
    IF startswith_slash(url) THEN base \o url ELSE base \o <<"/">> \o url

\* mutant: the empty list is returned as it is
crawl_phase1_return_unchecked(h) ==
    IF ~Truthy(h) THEN [ret |-> None, raised |-> FALSE]
    ELSE LET c == parse_cities(h)
         IN  [ret |-> List(c.ret), raised |-> c.raised]

\* crawl_phase1 from the fetched html on: the returned value
crawl_phase1_return(h) ==
    IF ~Truthy(h) THEN [ret |-> None, raised |-> FALSE]
    ELSE LET c == parse_cities(h)
         IN  [ret |-> IF ~Truthy(List(c.ret)) THEN None ELSE List(c.ret),
              raised |-> c.raised]

\* `all_stations[city_name] = stations`
Put(d, k, v) == [x \in DOMAIN d \cup {k} |-> IF x = k THEN v ELSE d[x]]

\* a transport that fails f times, by an exception and a 503 status in
\* turn, then answers 200 with body
MainTransport(f, body) ==
    [n \in 1..NOutcomes |->
        IF n > f THEN Response(200, body)
        ELSE IF n % 2 = 1 THEN RequestException ELSE Response(503, EmptyBody)]

\* the links and the cells of the pages served during a run
MainLinkSet ==
    {[text |-> t, href |-> h] :
        t \in {<<"a">>, <<" ", "b">>}, h \in {Href(<<"y">>), NoHref}}
MainHeaderCells == {Cell("th", <<"p">>)}
MainDataCells == {Cell("td", <<" ", "q">>), Cell("th", <<"p">>)}

InitMain ==
    /\ pc = "phase1"
    /\ inp = None
    /\ res = None
    /\ Idle

\* main up to `html = self.get_html(self.base_url)` in crawl_phase1
Phase1FetchWith(f, body) ==
    LET r == get_html(MainTransport(f, body), 0)
    IN  /\ html' = r.ret
        /\ requested' = Append(requested, base_url)
        /\ out' = Append(out, "phase1_start")
        /\ pc' = IF r.raised THEN "finish_exc" ELSE "p1_fetched"
        /\ UNCHANGED <<inp, res, cities, idx, all_stations, visited>>

Phase1Fetch ==
    /\ pc = "phase1"
    /\ \E f \in {0, 1, max_retries + 1} :
          \/ \E body \in {EmptyBody, RejectedMarkup} : Phase1FetchWith(f, body)
          \/ SomeLandingPage(MainLinkSet, MainLinks, LAMBDA body : Phase1FetchWith(f, body))

\* the rest of crawl_phase1 and the assignment `cities = crawler.crawl_phase1()`
Phase1Return ==
    /\ pc = "p1_fetched"
    /\ LET r == crawl_phase1_return(html)
       IN  /\ cities' = r.ret
           /\ pc' = IF r.raised THEN "finish_exc" ELSE "p1_returned"
    /\ UNCHANGED <<inp, res, html, idx, all_stations, visited, requested, out>>

\* `if cities:` in main
MainBranch ==
    /\ pc = "p1_returned"
    /\ html' = None
    /\ IF Truthy(cities)
       THEN /\ out' = Append(out, "phase2_start")
            /\ pc' = "p2_enter"
       ELSE /\ out' = out
            /\ pc' = "finish"
    /\ UNCHANGED <<inp, res, cities, idx, all_stations, visited, requested>>

\* crawl_phase2 up to the loop
Phase2Enter ==
    /\ pc = "p2_enter"
    /\ IF ~Truthy(cities)
       THEN /\ pc' = "finish"
            /\ UNCHANGED <<idx, all_stations>>
       ELSE /\ all_stations' = <<>>
            /\ idx' = 1
            /\ pc' = "p2_loop"
    /\ UNCHANGED <<inp, res, html, cities, visited, requested, out>>

\* one iteration of `for i, (city_name, city_url) in enumerate(cities, 1)`
Phase2CityWith(f, body) ==
    LET city_name == cities.val[idx][1]
        city_url == cities.val[idx][2]
        full_url == urljoin(base_url, city_url)
        r == get_html(MainTransport(f, body), 0)
        s == parse_stations(r.ret)
    IN  /\ requested' = Append(requested, full_url)
        /\ visited' = Append(visited, [city_name |-> city_name,
                                       fetched |-> r.ret # None,
                                       stations |-> s.ret])
        /\ all_stations' =
              IF ~Truthy(r.ret) THEN all_stations
              ELSE IF ~Truthy(List(s.ret)) THEN all_stations
              ELSE Put(all_stations, city_name, s.ret)
        /\ idx' = idx + 1
        /\ pc' = IF r.raised \/ (Truthy(r.ret) /\ s.raised)
                 THEN "finish_exc" ELSE "p2_loop"
        /\ UNCHANGED <<inp, res, html, cities, out>>

Phase2City ==
    /\ pc = "p2_loop"
    /\ idx <= Len(cities.val)
    /\ \E f \in {0, 1, max_retries + 1} :
          \/ \E body \in {EmptyBody, RejectedMarkup} : Phase2CityWith(f, body)
          \/ SomeCityPage(MainHeaderCells, MainDataCells, MainRows, MainCells,
                          LAMBDA body : Phase2CityWith(f, body))

\* `return all_stations`
Phase2Return ==
    /\ pc = "p2_loop"
    /\ idx > Len(cities.val)
    /\ pc' = "p2_returned"
    /\ UNCHANGED <<inp, res, html, cities, idx, all_stations, visited, requested, out>>

\* the last print of main: the completion message, or the message of
\* `except Exception`
Finish ==
    /\ pc \in {"finish", "p2_returned", "finish_exc"}
    /\ out' = Append(out, IF pc = "finish_exc" THEN "exception" ELSE "complete")
    /\ pc' = "done"
    /\ UNCHANGED <<inp, res, html, cities, idx, all_stations, visited, requested>>

Next ==
    \/ Phase1Fetch
    \/ Phase1Return
    \/ MainBranch
    \/ Phase2Enter
    \/ Phase2City
    \/ Phase2Return
    \/ Finish

Spec == InitMain /\ [][Next]_vars

\* the single thread of the program keeps running: every sleep ends and
\* every GET returns or times out
SpecFair == Spec /\ WF_vars(Next)

\* C3: crawl_phase2 visits every city of the list in list order, and the
\* returned mapping has a city's name for key exactly when that city's
\* fetch returned a body and its station list is not empty, and maps the
\* name to that list.
C3_Phase2ResultMapping ==
    pc = "p2_returned"
        => /\ Len(visited) = Len(cities.val)
           /\ \A k \in 1..Len(visited) :
                 LET name == cities.val[k][1]
                     v == visited[k]
                 IN  /\ v.city_name = name
                     /\ requested[k + 1] = urljoin(base_url, cities.val[k][2])
                     /\ name \in DOMAIN all_stations
                           <=> (v.fetched /\ v.stations # <<>>)
                     /\ name \in DOMAIN all_stations
                           => all_stations[name] = v.stations

PhaseGating ==
    /\ pc = "p1_returned"
          => LET found == parse_cities(html).ret
             IN  cities = IF html.kind = "None" \/ found = <<>>
                          THEN None ELSE List(found)
    /\ Len(requested) > 1 => (cities.kind = "list" /\ cities.val # <<>>)
    /\ pc # "finish_exc"
    /\ (pc = "done" /\ cities.kind = "None")
          => (out = <<"phase1_start", "complete">> /\ requested = <<base_url>>)

\* C10: crawl_phase1 returns None when the landing page was not fetched or
\* parse_cities found no city, and the non-empty city list otherwise; a
\* city page is requested only after phase 1 returned a non-empty list; no
\* exception reaches main, and a run whose phase 1 returned None ends, with
\* the completion message as its only message after the start of phase 1.
C10_PhaseGating == []PhaseGating /\ <>(pc = "done")

C10_Witness ==
    /\ pc = "done"
    /\ cities.kind = "None"
    /\ out = <<"phase1_start", "complete">>

====
